---- MODULE Spec2Model ----
(***************************************************************************)
(* Model of app/convert.py (class Convert): read -> optional split ->      *)
(* write.  One convert() call is a small state machine; the loaders and    *)
(* writers of the dataframe library are modelled by their outcome (a table *)
(* or an exception) as a function of the input file and the options.       *)
(***************************************************************************)
EXTENDS Integers, Sequences, FiniteSets, TLC

(* ------------------------------------------------------------------ *)
(* Bounds of the model                                                  *)
(* ------------------------------------------------------------------ *)
\* longest table (rows) of the length-split scenarios
MaxRows == 10
\* longest table whose date cells are chosen freely
MaxDateRows == 2
\* largest part count handed to the length split
MaxParts == 4
\* largest month_n of the "Last X Months" scenarios
MaxMonthN == 2
\* most calls of convert() made on one Convert object
MaxCalls == 2

(* ------------------------------------------------------------------ *)
(* Python values: None, str, int, and "key not in the dict"            *)
(* ------------------------------------------------------------------ *)
PyNone == [k |-> "none", s |-> "", i |-> 0]
Absent == [k |-> "absent", s |-> "", i |-> 0]
PyStr(str) == [k |-> "str", s |-> str, i |-> 0]
PyInt(n) == [k |-> "int", s |-> "", i |-> n]
PyBool(b) == [k |-> "bool", s |-> "", i |-> IF b THEN 1 ELSE 0]

\* truth value of `if to_split:`
Truthy(v) ==
    CASE v.k = "str" -> v.s # ""
      [] v.k = "int" -> v.i # 0
      [] v.k = "bool" -> v.i # 0
      [] OTHER -> FALSE

\* dict.get(key, default) / dict.pop(key, default) on a dict held as a
\* function from a fixed key set to values, Absent marking a missing key
DictGet(d, key, default) == IF d[key] = Absent THEN default ELSE d[key]
DictDel(d, key) == [d EXCEPT ![key] = Absent]
DictKeys(d) == {key \in DOMAIN d : d[key] # Absent}

\* int(split_by): [ok, val]; a str converts when it is a decimal literal,
\* None raises TypeError, other text raises ValueError
IntLiterals == {"0", "1", "2", "3"}
IntOfLiteral(str) == CASE str = "0" -> 0 [] str = "1" -> 1 [] str = "2" -> 2 [] str = "3" -> 3
int(v) ==
    CASE v.k = "int" -> [ok |-> TRUE, val |-> v.i]
      [] v.k = "bool" -> [ok |-> TRUE, val |-> v.i]
      [] v.k = "str" /\ v.s \in IntLiterals -> [ok |-> TRUE, val |-> IntOfLiteral(v.s)]
      [] OTHER -> [ok |-> FALSE, val |-> 0]

(* ------------------------------------------------------------------ *)
(* Text: a str is a sequence of one-character strings                  *)
(* ------------------------------------------------------------------ *)
Digits == <<"0", "1", "2", "3", "4", "5", "6", "7", "8", "9">>

RECURSIVE Str(_)
\* str(n) for an int n >= 0
Str(n) == IF n < 10 THEN <<Digits[n + 1]>> ELSE Str(n \div 10) \o <<Digits[(n % 10) + 1]>>

\* str(x) of a float holding the whole number n: "2020.0"
StrFloat(n) == Str(n) \o <<".", "0">>

\* str.zfill(2)
zfill2(str) == IF Len(str) < 2 THEN <<"0">> \o str ELSE str

\* the characters of a type tag ("csv", "parquet", ...)
Chars(tag) ==
    CASE tag = "csv" -> <<"c", "s", "v">>
      [] tag = "parquet" -> <<"p", "a", "r", "q", "u", "e", "t">>
      [] tag = "xlsx" -> <<"x", "l", "s", "x">>
      [] OTHER -> <<>>

\* `needle in hay` for two str
Contains(hay, needle) ==
    \E p \in 0..(Len(hay) - Len(needle)) :
        \A j \in 1..Len(needle) : hay[p + j] = needle[j]

\* str.rsplit(".", 1)[0]: the text before the last ".", or all of it
RsplitDotHead(str) ==
    LET dots == {p \in 1..Len(str) : str[p] = "."}
    IN IF dots = {} THEN str
       ELSE LET last == CHOOSE p \in dots : \A q \in dots : q <= p
            IN SubSeq(str, 1, last - 1)

\* `str.endswith(suffix)` for two str
EndsWith(str, suffix) ==
    /\ Len(suffix) <= Len(str)
    /\ SubSeq(str, Len(str) - Len(suffix) + 1, Len(str)) = suffix

\* a variant of BaseName that removes the suffix ".<output_type>" and nothing else
BaseNameSuffixOnly(file, otype) ==
    IF EndsWith(file, <<".">> \o Chars(otype))
    THEN SubSeq(file, 1, Len(file) - Len(Chars(otype)) - 1)
    ELSE file
\* lines 103-104 and 126-127: the base of the fragment names
BaseName(file, otype) ==
    IF Contains(file, Chars(otype)) THEN RsplitDotHead(file) ELSE file

(* ------------------------------------------------------------------ *)
(* Timestamps and tables                                                *)
(* ------------------------------------------------------------------ *)
\* a cell of a column: a timestamp (day precision, midnight), a missing
\* value (parsed to NaT by to_datetime) or text that is no date
Ts(y, m, d) == [k |-> "ts", y |-> y, m |-> m, d |-> d]
NaT == [k |-> "nat", y |-> 0, m |-> 0, d |-> 0]
BadDate == [k |-> "bad", y |-> 0, m |-> 0, d |-> 0]

\* total order of timestamps
TsLess(a, b) ==
    \/ a.y < b.y
    \/ a.y = b.y /\ a.m < b.m
    \/ a.y = b.y /\ a.m = b.m /\ a.d < b.d

\* the cells the date column of an input table is drawn from
DateCells ==
    {Ts(2019, 12, 1), Ts(2019, 12, 20), Ts(2020, 1, 1), Ts(2020, 2, 10), NaT, BadDate}

\* a table: its column names and the cells of its column "date"; every
\* other column holds text that is no date.  Row r (0-based) is date[r + 1].
Table(cells) == [columns |-> {"date", "name"}, date |-> cells]
len(df) == Len(df.date)
RowIds(df) == [j \in 1..len(df) |-> j - 1]
CellOf(df, col, r) == IF col = "date" THEN df.date[r + 1] ELSE BadDate

RECURSIVE SeqsUpTo(_, _)
\* all sequences over S of length <= n
SeqsUpTo(S, n) ==
    IF n = 0 THEN {<<>>}
    ELSE LET shorter == SeqsUpTo(S, n - 1)
         IN shorter \cup {Append(q, x) : q \in {t \in shorter : Len(t) = n - 1}, x \in S}

\* tables with freely chosen date cells, and longer tables of one date
DateTables == {Table(c) : c \in SeqsUpTo(DateCells, MaxDateRows)}
LongTables == {Table([j \in 1..n |-> Ts(2020, 2, 10)]) : n \in 0..MaxRows}

\* dataframe.iloc[start:end]: the row ids start .. end-1, in order
iloc(df, start, end) ==
    LET lo == IF start > len(df) THEN len(df) ELSE start
        hi == IF end > len(df) THEN len(df) ELSE end
    IN [j \in 1..(IF hi > lo THEN hi - lo ELSE 0) |-> lo + j - 1]

(* ------------------------------------------------------------------ *)
(* save_by_parts: the row range of part i (0-based)                    *)
(* ------------------------------------------------------------------ *)
\* a variant of PartStart that rounds up
PartStartCeil(i, data_length, parts) == (i * data_length + parts - 1) \div parts
\* line 129: start = int(i * data_length / parts): a true division, then
\* truncation; for these non-negative operands it is the floor, exactly so
\* as long as i * data_length stays below 2^53
PartStart(i, data_length, parts) == (i * data_length) \div parts
\* a variant of PartEnd that gives every part the same size, the last rows lost
PartEndEven(i, data_length, parts) == (i + 1) * (data_length \div parts)
\* line 130: end = int((i + 1) * data_length / parts)
PartEnd(i, data_length, parts) == ((i + 1) * data_length) \div parts

\* line 131: f"{file_name}_part_{i + 1}.{self.output_type}"
PartName(base, i, otype) ==
    base \o <<"_", "p", "a", "r", "t", "_">> \o Str(i + 1) \o <<".">> \o Chars(otype)

(* ------------------------------------------------------------------ *)
(* save_by_date                                                         *)
(* ------------------------------------------------------------------ *)
\* line 91: to_datetime(dataframe[date_col]) raises on text that is no date
ParseFails(df, col) == \E r \in 0..(len(df) - 1) : CellOf(df, col, r).k = "bad"
\* the parsed series holds NaT: .dt.year and .dt.month are then float64
HasNaT(df, col) == \E r \in 0..(len(df) - 1) : CellOf(df, col, r).k = "nat"
Dated(df, col) == {r \in 0..(len(df) - 1) : CellOf(df, col, r).k = "ts"}

\* line 97: date_series.max(), skipping NaT; NaT when nothing is left
SeriesMax(df, col) ==
    IF Dated(df, col) = {} THEN NaT
    ELSE LET r == CHOOSE x \in Dated(df, col) :
                      \A z \in Dated(df, col) : ~TsLess(CellOf(df, col, x), CellOf(df, col, z))
         IN CellOf(df, col, r)

\* lines 98-99: Timestamp(year, month, 1) - DateOffset(months=month_n)
Cutoff(last, n) ==
    LET idx == last.y * 12 + (last.m - 1) - n
    IN Ts(idx \div 12, (idx % 12) + 1, 1)

\* a variant of AfterCutoff that keeps the row dated at the cutoff
AtOrAfterCutoff(cell, cutoff) == cell.k = "ts" /\ ~TsLess(cell, cutoff)
\* line 100: date_series > last_month (NaT compares False)
AfterCutoff(cell, cutoff) == cell.k = "ts" /\ TsLess(cutoff, cell)

\* line 100: dataframe.loc[date_series > last_month]
LastMonthsRows(df, col, n) ==
    LET cutoff == Cutoff(SeriesMax(df, col), n)
    IN SelectSeq(RowIds(df), LAMBDA r : AfterCutoff(CellOf(df, col, r), cutoff))

\* a variant of PeriodKey that groups by the year whatever the timeframe
PeriodKeyYearOnly(cell, split_by) == IF split_by = "Yearly" THEN cell.y ELSE cell.y * 12
\* lines 105-111: the grouping key of a dated row: the year, or (year, month)
\* ranked as year * 12 + month - 1
PeriodKey(cell, split_by) ==
    IF split_by = "Yearly" THEN cell.y ELSE cell.y * 12 + (cell.m - 1)

RECURSIVE SortedSeq(_)
SortedSeq(S) ==
    IF S = {} THEN <<>>
    ELSE LET lo == CHOOSE x \in S : \A z \in S : x <= z
         IN <<lo>> \o SortedSeq(S \ {lo})

\* lines 114-118: the period text of a group; floaty when the keys are floats
PeriodText(key, split_by, floaty) ==
    IF split_by = "Monthly"
    THEN LET y == key \div 12
             m == (key % 12) + 1
         IN IF floaty
            THEN StrFloat(y) \o <<"_">> \o zfill2(StrFloat(m))
            ELSE Str(y) \o <<"_">> \o zfill2(Str(m))
    ELSE IF floaty THEN StrFloat(key) ELSE Str(key)

\* line 118: f"{file_name}_{period}.{self.output_type}"
PeriodName(base, key, split_by, floaty, otype) ==
    base \o <<"_">> \o PeriodText(key, split_by, floaty) \o <<".">> \o Chars(otype)

\* a variant of GroupBy that keeps the rows of missing date as a last group
\* (groupby(condition, dropna=False)), under the key 0
GroupByKeepMissing(df, col, split_by) ==
    LET keys == SortedSeq({PeriodKey(CellOf(df, col, r), split_by) : r \in Dated(df, col)})
        dated == [g \in 1..Len(keys) |->
                    [key |-> keys[g],
                     rows |-> SelectSeq(RowIds(df),
                                 LAMBDA r : /\ CellOf(df, col, r).k = "ts"
                                            /\ PeriodKey(CellOf(df, col, r), split_by) = keys[g])]]
    IN IF HasNaT(df, col)
       THEN Append(dated, [key |-> 0,
                           rows |-> SelectSeq(RowIds(df), LAMBDA r : CellOf(df, col, r).k = "nat")])
       ELSE dated
\* line 112: dataframe.groupby(condition): the groups in ascending key
\* order, rows of missing date dropped; each group keeps the row order.
\* The keys come as tuples (pandas 2 and later), which period[0] relies on.
GroupBy(df, col, split_by) ==
    LET keys == SortedSeq({PeriodKey(CellOf(df, col, r), split_by) : r \in Dated(df, col)})
    IN [g \in 1..Len(keys) |->
          [key |-> keys[g],
           rows |-> SelectSeq(RowIds(df),
                       LAMBDA r : /\ CellOf(df, col, r).k = "ts"
                                  /\ PeriodKey(CellOf(df, col, r), split_by) = keys[g])]]

(* ------------------------------------------------------------------ *)
(* Exceptions, the library's loaders, the constructor                  *)
(* ------------------------------------------------------------------ *)
\* an exception: its type, its message (text and detail) and the place
\* that raised it (the identity of the exception object)
Exc(type, text, detail, origin) ==
    [type |-> type, msg |-> <<text, detail>>, origin |-> origin]
NoExc == Exc("", "", "", "")

\* line 50
UnsupportedExc(input_type) == Exc("ValueError", "Unsupported file type: ", input_type, "read")
\* lines 163-165
GenericExc ==
    Exc("Exception",
        "Instructions to split the given table are not valid. Please confirm your settings!",
        "", "convert")

InKeys == {"encoding", "dtype", "low_memory"}
OutKeys == {"to_split", "split_by", "date_col", "month_n", "index", "compression"}
EmptyIn == [key \in InKeys |-> Absent]
EmptyOut == [key \in OutKeys |-> Absent]

\* the input files of the model, by what they hold: text valid as UTF-8,
\* text valid under ISO-8859-1 only, such text with a value a converter
\* rejects once it is decoded, text the tokenizer rejects, no file, parquet
InputFiles ==
    {"utf8.csv", "latin1.csv", "latin1_badvalue.csv", "malformed.csv", "missing.csv",
     "data.parquet"}

\* read_csv(file, **kw): "" when it returns a table, else the exception type
ReadCsvError(file, kw) ==
    LET enc == DictGet(kw, "encoding", PyStr("utf-8")).s
    IN CASE file = "missing.csv" -> "FileNotFoundError"
         [] file = "malformed.csv" -> "ParserError"
         [] file = "utf8.csv" ->
                IF enc \in {"utf-8", "ISO-8859-1"} THEN "" ELSE "UnicodeDecodeError"
         [] file = "latin1.csv" ->
                IF enc = "ISO-8859-1" THEN "" ELSE "UnicodeDecodeError"
         [] OTHER ->
                IF enc = "ISO-8859-1" THEN "ValueError" ELSE "UnicodeDecodeError"

\* read_parquet(file, **kw): it takes neither encoding nor low_memory
ReadParquetError(file, kw) ==
    CASE DictKeys(kw) # {} -> "TypeError"
      [] file = "data.parquet" -> ""
      [] file = "missing.csv" -> "FileNotFoundError"
      [] OTHER -> "ArrowInvalid"

\* lines 44-48 and 59/65: module(input_file, **input_settings)
Load(input_type, file, kw, attempt) ==
    LET err == IF input_type = "csv" THEN ReadCsvError(file, kw) ELSE ReadParquetError(file, kw)
        detail == IF err = "UnicodeDecodeError"
                  THEN DictGet(kw, "encoding", PyStr("utf-8")).s ELSE file
    IN [ok |-> err = "", exc |-> IF err = "" THEN NoExc ELSE Exc(err, err, detail, attempt)]

\* lines 51-56: the options read() hands to the loader
ReadOptions(input_type, input_settings) ==
    IF input_type = "csv"
    THEN [input_settings EXCEPT !["low_memory"] = DictGet(input_settings, "low_memory", PyBool(FALSE))]
    ELSE IF input_type = "parquet" THEN DictDel(input_settings, "dtype")
    ELSE input_settings

\* lines 61-63: whether a failed first attempt is retried
RetryRead(input_type, kw) ==
    LET is_csv == input_type = "csv"
        encoding == DictGet(kw, "encoding", PyStr("utf-8"))
    IN is_csv /\ encoding = PyStr("utf-8")

\* lines 32-38: Convert.__init__; "" stands for a type left out (None)
__init__(input_file, output_file, input_type, output_type, input_settings, output_settings) ==
    [input_file |-> input_file,
     output_file |-> output_file,
     input_type |-> IF input_type = "" THEN "csv" ELSE input_type,
     output_type |-> IF output_type = "" THEN "parquet" ELSE output_type,
     input_settings |-> input_settings,
     output_settings |-> output_settings]

\* line 38
date_splits == <<"Last X Months", "Monthly", "Yearly">>

\* a variant of IsDateSplit that does not look for the column
IsDateSplitAnyColumn(to_split, split_by, date_col, df) ==
    /\ to_split = PyStr("date")
    /\ split_by.k = "str" /\ \E j \in 1..Len(date_splits) : date_splits[j] = split_by.s
\* lines 150-154: the condition of the split-by-date branch
IsDateSplit(to_split, split_by, date_col, df) ==
    /\ to_split = PyStr("date")
    /\ split_by.k = "str" /\ \E j \in 1..Len(date_splits) : date_splits[j] = split_by.s
    /\ date_col.k = "str" /\ date_col.s \in df.columns

\* a variant of PartsPositive that lets zero through
PartsNotNegative(n) == n >= 0
\* line 158: (parts := int(split_by)) > 0
PartsPositive(n) == n > 0

\* a variant of SplitFailure that re-raises what it caught
SplitFailureReraise(e) == e
\* lines 162-165: what the handler around the split raises for a caught e
SplitFailure(e) == GenericExc

\* line 73: settings.get("index", False)
KeepIndex(settings) == Truthy(DictGet(settings, "index", PyBool(FALSE)))

\* the output kinds save() writes for (lines 74 and 77)
WritableTypes == {"parquet", "csv"}

\* the failures a writer raises
WriteErrors == {"PermissionError", "OSError"}
WriteExc(type) == Exc(type, type, "output file", "save")

(* ------------------------------------------------------------------ *)
(* The window: MainWindow of main.py                                    *)
(* ------------------------------------------------------------------ *)
\* the files of the dialogs and drops, as paths: a.csv, b.parquet, c.csv, d.txt
FileA == <<"a", ".", "c", "s", "v">>
FileB == <<"b", ".", "p", "a", "r", "q", "u", "e", "t">>
FileC == <<"c", ".", "c", "s", "v">>
FileD == <<"d", ".", "t", "x", "t">>
\* what the files hold: the columns in file order; c.csv cannot be read
FileColumns(file) ==
    CASE file = FileA -> <<"name", "date">>
      [] file = FileB -> <<"name", "day">>
      [] OTHER -> <<>>
PreviewFails(file) == file = FileC
\* sorted(columns), for the column names of the model
Alphabetical == <<"date", "day", "name">>
SeqSet(q) == {q[j] : j \in 1..Len(q)}
InSeq(x, q) == \E j \in 1..Len(q) : q[j] = x
IsColumnOf(cols, x) == InSeq(x, cols)
sorted(cols) == SelectSeq(Alphabetical, LAMBDA x : IsColumnOf(cols, x))

\* str.rsplit(".", 1)[-1]: the text after the last ".", or all of it
RsplitDotTail(str) ==
    LET dots == {p \in 1..Len(str) : str[p] = "."}
    IN IF dots = {} THEN str
       ELSE LET last == CHOOSE p \in dots : \A q \in dots : q <= p
            IN SubSeq(str, last + 1, Len(str))
\* lines 359-360 and 783-786: the input type by the text after the last dot
InputTypeOf(file) == IF RsplitDotTail(file) = Chars("parquet") THEN "parquet" ELSE "csv"

\* os.path.splitext(path)[0]: the path without the extension of its last
\* component; leading dots of the component are no extension
splitext(path) ==
    LET seps == {p \in 1..Len(path) : path[p] = "/"}
        sep == IF seps = {} THEN 0 ELSE CHOOSE p \in seps : \A q \in seps : q <= p
        dots == {p \in (sep + 1)..Len(path) : path[p] = "."}
    IN IF dots = {} THEN path
       ELSE LET last == CHOOSE p \in dots : \A q \in dots : q <= p
            IN IF \A p \in (sep + 1)..last : path[p] = "." THEN path
               ELSE SubSeq(path, 1, last - 1)

\* lines 804-816
valid_extensions ==
    {<<".", "c", "s", "v">>, <<".", "g", "z">>, <<".", "b", "z", "2">>, <<".", "z", "i", "p">>,
     <<".", "x", "z">>, <<".", "z", "s", "t">>, <<".", "t", "a", "r">>,
     <<".", "t", "a", "r", ".", "g", "z">>, <<".", "t", "a", "r", ".", "x", "z">>,
     <<".", "t", "a", "r", ".", "b", "z", "2">>,
     <<".", "p", "a", "r", "q", "u", "e", "t">>}
\* line 817 (the paths of the model are in lower case)
is_valid_file_type(file_path) == \E ext \in valid_extensions : EndsWith(file_path, ext)

\* lines 92-102, 145, 162, 175-177, 189-203, 220: MainWindow.__init__; the
\* handlers are connected after the widgets got their first values, so none
\* of them has run. output_for is the input file the output path was chosen
\* for, converted tells that convert_file has just returned.
MainWindow ==
    [input_file |-> <<>>,
     output_file |-> <<>>,
     input_type |-> "",
     output_type |-> "",
     input_settings |-> [EmptyIn EXCEPT !["dtype"] = PyStr("str")],
     output_settings |-> EmptyOut,
     convert_button |-> FALSE,
     radio_all_str |-> TRUE,
     split |-> "no_split",
     parts_spinbox |-> 4,
     parts_enabled |-> FALSE,
     date_col_items |-> <<>>,
     date_col_combo |-> "",
     date_enabled |-> FALSE,
     timeframe_combo |-> "Last X Months",
     months_spinbox |-> 1,
     months_visible |-> FALSE,
     radio_parquet |-> TRUE,
     output_for |-> <<>>,
     converted |-> FALSE]

(* ------------------------------------------------------------------ *)
(* State                                                                *)
(* ------------------------------------------------------------------ *)
VARIABLES
    self,        \* the Convert object: the fields __init__ sets
    src,         \* the table the input file holds (what a successful load returns)
    pc,          \* where convert() stands
    kwargs,      \* read(): its own **input_settings dict
    loads,       \* the loader calls made so far, in order
    caught,      \* read(): the exception e of the first attempt, once caught
    dataframe,   \* convert(): the table read
    settings,    \* convert(): the copy of output_settings handed to save()
    to_split,    \* convert(): settings.pop("to_split", None)
    split_by,    \* convert(): settings.pop("split_by", None)
    date_col,    \* convert(): settings.pop("date_col", None)
    month_n,     \* convert(): settings.pop("month_n", 1)
    parts,       \* convert(): int(split_by) of the length branch
    grouped,     \* save_by_date(): the groups of dataframe.groupby(condition)
    i,           \* the loop index of save_by_parts() / of the loop over grouped
    handed,      \* the save() calls made so far: [name, rows], in order
    written,     \* the files the writers wrote in this call, in order
    raised,      \* convert(): the exception raised inside it after the read, or NoExc
    exc,         \* the exception convert() raised to its caller, or NoExc
    branch,      \* the branch convert() took: "", whole, date, length, invalid
    calls,       \* the calls of convert() begun on this object
    hist,        \* the caller's record: output_settings at construction, and how
                 \* the call before this one went
    win          \* the MainWindow: its fields and the state of its widgets

vars ==
    <<self, src, pc, kwargs, loads, caught, dataframe, settings, to_split, split_by,
      date_col, month_n, parts, grouped, i, handed, written, raised, exc, branch,
      calls, hist, win>>

NoTable == [columns |-> {}, date |-> <<>>]

\* the input sets of the scenarios
OutputFiles == {<<"o", ".", "c", "s", "v">>, <<"o", ".", "p", "a", "r", "q", "u", "e", "t">>}
\* output paths that hold the text "csv" elsewhere than in a suffix ".csv":
\* csv/o.t, o_csv, a.csv.b, a.b/csv; one with the suffix twice, one without
PathFiles ==
    OutputFiles \cup
    {<<"c", "s", "v", "/", "o", ".", "t">>, <<"o", "_", "c", "s", "v">>,
     <<"a", ".", "c", "s", "v", ".", "b">>, <<"a", ".", "b", "/", "c", "s", "v">>,
     <<"o", ".", "c", "s", "v", ".", "c", "s", "v">>, <<"a", ".", "b">>}
TypeArgs == {"", "csv", "parquet", "xlsx"}
Encodings == {Absent, PyStr("utf-8"), PyStr("ISO-8859-1"), PyStr("ascii")}
ToSplits == {Absent, PyStr(""), PyStr("date"), PyStr("length"), PyStr("rows")}
SplitBys ==
    {Absent, PyStr("Last X Months"), PyStr("Monthly"), PyStr("Yearly"), PyStr("abc"), PyStr("2")}
        \cup {PyInt(n) : n \in (0 - 1)..MaxParts}
DateCols == {Absent, PyStr("date"), PyStr("name"), PyStr("nope")}
MonthNs == {Absent} \cup {PyInt(n) : n \in 1..MaxMonthN}

OutSettings(ts, sb, dc, mn, ix) ==
    [key \in OutKeys |->
        CASE key = "to_split" -> ts
          [] key = "split_by" -> sb
          [] key = "date_col" -> dc
          [] key = "month_n" -> mn
          [] key = "index" -> ix
          [] OTHER -> Absent]

TwoRows == Table(<<Ts(2019, 12, 20), Ts(2020, 2, 10)>>)

\* reading: every input kind, file and encoding; the table written whole
ReadScenarios ==
    {[input_file |-> f, src |-> TwoRows, input_type |-> it, output_file |-> of,
      output_type |-> "csv",
      input_settings |-> [EmptyIn EXCEPT !["encoding"] = enc, !["dtype"] = dt],
      output_settings |-> EmptyOut] :
        f \in InputFiles, it \in TypeArgs, of \in OutputFiles, enc \in Encodings,
        dt \in {Absent, PyStr("str")}}

\* the decision: every to_split, split_by and date_col
DecisionScenarios ==
    {[input_file |-> "utf8.csv", src |-> t, input_type |-> "csv",
      output_file |-> <<"o", ".", "c", "s", "v">>, output_type |-> "csv",
      input_settings |-> EmptyIn,
      output_settings |-> OutSettings(ts, sb, dc, Absent, Absent)] :
        t \in {Table(<<>>), TwoRows}, ts \in ToSplits, sb \in SplitBys, dc \in DateCols}

\* splitting by date: every small table, timeframe, month count, output kind
DateScenarios ==
    {[input_file |-> "data.parquet", src |-> t, input_type |-> "parquet",
      output_file |-> of, output_type |-> ot,
      input_settings |-> EmptyIn,
      output_settings |-> OutSettings(PyStr("date"), PyStr(sb), PyStr("date"), mn, ix)] :
        t \in DateTables, sb \in {"Last X Months", "Monthly", "Yearly"}, mn \in MonthNs,
        of \in OutputFiles, ot \in TypeArgs, ix \in {Absent, PyBool(TRUE)}}

\* splitting by length: every row count and part count
PartsScenarios ==
    {[input_file |-> "utf8.csv", src |-> t, input_type |-> "",
      output_file |-> of, output_type |-> ot,
      input_settings |-> EmptyIn,
      output_settings |-> OutSettings(PyStr("length"), PyInt(n), Absent, Absent, Absent)] :
        t \in LongTables, n \in 1..MaxParts, of \in OutputFiles, ot \in TypeArgs}

\* naming the fragments: every output path, for the splits that name files
PathScenarios ==
    {[input_file |-> "utf8.csv", src |-> TwoRows, input_type |-> "csv",
      output_file |-> of, output_type |-> ot,
      input_settings |-> EmptyIn,
      output_settings |-> os] :
        of \in PathFiles, ot \in {"csv", "parquet"},
        os \in {OutSettings(PyStr("length"), PyInt(2), Absent, Absent, Absent),
                OutSettings(PyStr("date"), PyStr("Yearly"), PyStr("date"), Absent, Absent),
                OutSettings(PyStr("date"), PyStr("Monthly"), PyStr("date"), Absent, Absent)}}

Scenarios ==
    ReadScenarios \cup DecisionScenarios \cup DateScenarios \cup PartsScenarios
        \cup PathScenarios

Init ==
    /\ \E sc \in Scenarios :
          /\ self = __init__(sc.input_file, sc.output_file, sc.input_type, sc.output_type,
                             sc.input_settings, sc.output_settings)
          /\ src = sc.src
    /\ pc = "start"
    /\ kwargs = EmptyIn
    /\ loads = <<>>
    /\ caught = NoExc
    /\ dataframe = NoTable
    /\ settings = EmptyOut
    /\ to_split = PyNone
    /\ split_by = PyNone
    /\ date_col = PyNone
    /\ month_n = PyNone
    /\ parts = 0
    /\ grouped = <<>>
    /\ i = 0
    /\ handed = <<>>
    /\ written = <<>>
    /\ raised = NoExc
    /\ exc = NoExc
    /\ branch = ""
    /\ calls = 1
    /\ hist = [output_settings |-> self.output_settings, branch |-> "", pc |-> ""]
    /\ win = MainWindow

(* ------------------------------------------------------------------ *)
(* Convert.read (lines 41-68)                                           *)
(* ------------------------------------------------------------------ *)
ReadFrame == <<self, src, settings, to_split, split_by, date_col, month_n, parts, grouped, i,
               handed, written, raised, branch, calls, hist, win>>

\* lines 44-67: dispatch, the options, the first attempt and its handler
read ==
    /\ pc = "start"
    /\ IF self.input_type \notin {"csv", "parquet"}
       THEN /\ exc' = UnsupportedExc(self.input_type)
            /\ pc' = "error"
            /\ UNCHANGED <<kwargs, loads, caught, dataframe>>
       ELSE LET kw == ReadOptions(self.input_type, self.input_settings)
                res == Load(self.input_type, self.input_file, kw, "load1")
            IN /\ loads' = Append(loads, [module |-> self.input_type, kwargs |-> kw])
               /\ IF res.ok
                  THEN /\ dataframe' = src
                       /\ pc' = "loaded"
                       /\ kwargs' = kw
                       /\ UNCHANGED <<caught, exc>>
                  ELSE /\ caught' = res.exc
                       /\ dataframe' = dataframe
                       /\ IF RetryRead(self.input_type, kw)
                          THEN /\ kwargs' = [kw EXCEPT !["encoding"] = PyStr("ISO-8859-1")]
                               /\ pc' = "retry"
                               /\ exc' = exc
                          ELSE /\ kwargs' = kw
                               /\ pc' = "error"
                               /\ exc' = res.exc
    /\ UNCHANGED ReadFrame

\* a variant of read_retry that swallows a failed second attempt and goes on
\* with an empty table
read_retry_swallowed ==
    /\ pc = "retry"
    /\ loads' = Append(loads, [module |-> self.input_type, kwargs |-> kwargs])
    /\ dataframe' = IF Load(self.input_type, self.input_file, kwargs, "load2").ok
                    THEN src ELSE Table(<<>>)
    /\ pc' = "loaded"
    /\ UNCHANGED <<kwargs, caught, exc>>
    /\ UNCHANGED ReadFrame

\* line 65: the second attempt, inside the handler; its failure is not caught
read_retry ==
    /\ pc = "retry"
    /\ LET res == Load(self.input_type, self.input_file, kwargs, "load2")
       IN /\ loads' = Append(loads, [module |-> self.input_type, kwargs |-> kwargs])
          /\ IF res.ok
             THEN /\ dataframe' = src
                  /\ pc' = "loaded"
                  /\ exc' = exc
             ELSE /\ dataframe' = dataframe
                  /\ pc' = "error"
                  /\ exc' = res.exc
    /\ UNCHANGED <<kwargs, caught>>
    /\ UNCHANGED ReadFrame

(* ------------------------------------------------------------------ *)
(* Convert.save (lines 70-79)                                           *)
(* ------------------------------------------------------------------ *)
\* the file a writer leaves: its name, its rows, whether the index is kept
File(name, rows, opts) ==
    [name |-> name, rows |-> rows, index |-> KeepIndex(opts), type |-> self.output_type]

\* line 78: settings["index"] = keep_index, for csv output only
SaveSettings(opts) ==
    IF self.output_type = "csv" THEN [opts EXCEPT !["index"] = PyBool(KeepIndex(opts))] ELSE opts

\* save() returns: the writer wrote the file, or the type has no writer
SaveReturns(rows, name) ==
    /\ handed' = Append(handed, [name |-> name, rows |-> rows, settings |-> settings])
    /\ written' = IF self.output_type \in WritableTypes
                  THEN Append(written, File(name, rows, settings))
                  ELSE written
    /\ settings' = SaveSettings(settings)

\* a variant of SaveRaises that removes the files written before the failure
SaveRaisesRollback(rows, name) ==
    /\ self.output_type \in WritableTypes
    /\ handed' = Append(handed, [name |-> name, rows |-> rows, settings |-> settings])
    /\ written' = <<>>
    /\ settings' = SaveSettings(settings)

\* save() raises: the writer failed, nothing is written
SaveRaises(rows, name) ==
    /\ self.output_type \in WritableTypes
    /\ handed' = Append(handed, [name |-> name, rows |-> rows, settings |-> settings])
    /\ written' = written
    /\ settings' = SaveSettings(settings)

\* a variant of WholeFailure that wraps the failure as the split handler does
WholeFailureWrapped(e) == GenericExc
\* line 167: outside the try, a failure of save() leaves convert() as it is
WholeFailure(e) == e

(* ------------------------------------------------------------------ *)
(* Convert.convert (lines 134-167)                                      *)
(* ------------------------------------------------------------------ *)
ObjFrame == <<self, src, kwargs, loads, caught, dataframe, calls, hist, win>>

\* lines 139-146: the copy of output_settings without the four split keys
Stripped(output_settings) ==
    DictDel(DictDel(DictDel(DictDel(output_settings, "to_split"), "split_by"), "date_col"),
            "month_n")

\* a variant of OwnSettings where the pops act on the object's own dict
OwnSettingsPopped(output_settings) == Stripped(output_settings)
\* line 139: the pops act on a copy, self.output_settings stays as it was
OwnSettings(output_settings) == output_settings

\* lines 148-161: the branch convert() takes, by its conditions in order
Decide(ts, sb, dc, df) ==
    IF ~Truthy(ts) THEN "whole"
    ELSE IF IsDateSplit(ts, sb, dc, df) THEN "date"
    ELSE IF ts = PyStr("length")
         THEN IF ~int(sb).ok THEN "invalid"
              ELSE IF PartsPositive(int(sb).val) THEN "length"
              ELSE "invalid"
         ELSE "invalid"

\* lines 139-161: pop the split keys, then choose the branch
convert ==
    /\ pc = "loaded"
    /\ LET ts == DictGet(self.output_settings, "to_split", PyNone)
           sb == DictGet(self.output_settings, "split_by", PyNone)
           dc == DictGet(self.output_settings, "date_col", PyNone)
           mn == DictGet(self.output_settings, "month_n", PyInt(1))
           br == Decide(ts, sb, dc, dataframe)
       IN /\ settings' = Stripped(self.output_settings)
          /\ to_split' = ts
          /\ split_by' = sb
          /\ date_col' = dc
          /\ month_n' = mn
          /\ branch' = br
          /\ parts' = IF br = "length" THEN int(sb).val ELSE parts
          /\ pc' = CASE br = "whole" -> "whole"
                     [] br = "date" -> "by_date"
                     [] br = "length" -> "by_parts"
                     [] OTHER -> "error"
          /\ raised' = IF br # "invalid" THEN raised
                       ELSE IF ts = PyStr("length") /\ ~int(sb).ok
                       THEN Exc("ValueError", "invalid literal for int()", "", "int")
                       ELSE Exc("RuntimeError", "No active exception to reraise", "", "raise")
          /\ exc' = IF br = "invalid" THEN SplitFailure(raised') ELSE exc
    /\ self' = [self EXCEPT !.output_settings = OwnSettings(@)]
    /\ UNCHANGED <<grouped, i, handed, written>>
    /\ UNCHANGED <<src, kwargs, loads, caught, dataframe, calls, hist, win>>

\* line 167: self.save(dataframe, self.output_file, settings)
save_whole ==
    /\ pc = "whole"
    /\ \/ /\ SaveReturns(RowIds(dataframe), self.output_file)
          /\ pc' = "done"
          /\ UNCHANGED <<raised, exc>>
       \/ \E t \in WriteErrors :
             /\ SaveRaises(RowIds(dataframe), self.output_file)
             /\ pc' = "error"
             /\ raised' = WriteExc(t)
             /\ exc' = WholeFailure(raised')
    /\ UNCHANGED <<to_split, split_by, date_col, month_n, parts, grouped, i, branch>>
    /\ UNCHANGED ObjFrame

(* ------------------------------------------------------------------ *)
(* Convert.save_by_parts (lines 121-132), one loop iteration a step    *)
(* ------------------------------------------------------------------ *)
save_by_parts ==
    /\ pc = "by_parts"
    /\ LET data_length == len(dataframe)
           file_name == BaseName(self.output_file, self.output_type)
           start == PartStart(i, data_length, parts)
           end == PartEnd(i, data_length, parts)
           part_name == PartName(file_name, i, self.output_type)
           rows == iloc(dataframe, start, end)
       IN \/ /\ SaveReturns(rows, part_name)
             /\ i' = i + 1
             /\ pc' = IF i + 1 < parts THEN "by_parts" ELSE "done"
             /\ UNCHANGED <<raised, exc>>
          \/ \E t \in WriteErrors :
                /\ SaveRaises(rows, part_name)
                /\ i' = i
                /\ pc' = "error"
                /\ raised' = WriteExc(t)
                /\ exc' = SplitFailure(raised')
    /\ UNCHANGED <<to_split, split_by, date_col, month_n, parts, grouped, branch>>
    /\ UNCHANGED ObjFrame

(* ------------------------------------------------------------------ *)
(* Convert.save_by_date (lines 81-119)                                  *)
(* ------------------------------------------------------------------ *)
\* lines 91-112: parse the column; "Last X Months" filters and saves, the
\* other timeframes group the rows
save_by_date ==
    /\ pc = "by_date"
    /\ LET col == date_col.s
           lmonth == date_splits[1]
       IN IF ParseFails(dataframe, col)
          THEN /\ pc' = "error"
               /\ raised' = Exc("ValueError", "Unknown datetime string format", col, "to_datetime")
               /\ exc' = SplitFailure(raised')
               /\ UNCHANGED <<settings, grouped, handed, written>>
          ELSE IF split_by.s = lmonth
          THEN IF SeriesMax(dataframe, col) = NaT
               THEN /\ pc' = "error"
                    /\ raised' = Exc("ValueError", "cannot convert float NaN to integer", "",
                                     "Timestamp")
                    /\ exc' = SplitFailure(raised')
                    /\ UNCHANGED <<settings, grouped, handed, written>>
               ELSE LET rows == LastMonthsRows(dataframe, col, month_n.i)
                    IN /\ \/ /\ SaveReturns(rows, self.output_file)
                             /\ pc' = "done"
                             /\ UNCHANGED <<raised, exc>>
                          \/ \E t \in WriteErrors :
                                /\ SaveRaises(rows, self.output_file)
                                /\ pc' = "error"
                                /\ raised' = WriteExc(t)
                                /\ exc' = SplitFailure(raised')
                       /\ grouped' = grouped
          ELSE /\ grouped' = GroupBy(dataframe, col, split_by.s)
               /\ pc' = IF grouped' = <<>> THEN "done" ELSE "groups"
               /\ UNCHANGED <<settings, handed, written, raised, exc>>
    /\ UNCHANGED <<to_split, split_by, date_col, month_n, parts, i, branch>>
    /\ UNCHANGED ObjFrame

\* lines 113-119: one iteration of the loop over the groups
save_group ==
    /\ pc = "groups"
    /\ LET file_name == BaseName(self.output_file, self.output_type)
           group == grouped[i + 1]
           part_name == PeriodName(file_name, group.key, split_by.s,
                                   HasNaT(dataframe, date_col.s), self.output_type)
       IN \/ /\ SaveReturns(group.rows, part_name)
             /\ i' = i + 1
             /\ pc' = IF i + 1 < Len(grouped) THEN "groups" ELSE "done"
             /\ UNCHANGED <<raised, exc>>
          \/ \E t \in WriteErrors :
                /\ SaveRaises(group.rows, part_name)
                /\ i' = i
                /\ pc' = "error"
                /\ raised' = WriteExc(t)
                /\ exc' = SplitFailure(raised')
    /\ UNCHANGED <<to_split, split_by, date_col, month_n, parts, grouped, branch>>
    /\ UNCHANGED ObjFrame

(* ------------------------------------------------------------------ *)
(* convert() called once more on the same object (line 134)            *)
(* ------------------------------------------------------------------ *)
\* the call before has returned or raised; the object keeps its fields, the
\* locals of the new call are fresh
convert_again ==
    /\ pc \in {"done", "error"}
    /\ calls < MaxCalls
    /\ calls' = calls + 1
    /\ hist' = [hist EXCEPT !.branch = branch, !.pc = pc]
    /\ pc' = "start"
    /\ kwargs' = EmptyIn
    /\ loads' = <<>>
    /\ caught' = NoExc
    /\ dataframe' = NoTable
    /\ settings' = EmptyOut
    /\ to_split' = PyNone
    /\ split_by' = PyNone
    /\ date_col' = PyNone
    /\ month_n' = PyNone
    /\ parts' = 0
    /\ grouped' = <<>>
    /\ i' = 0
    /\ handed' = <<>>
    /\ written' = <<>>
    /\ raised' = NoExc
    /\ exc' = NoExc
    /\ branch' = ""
    /\ UNCHANGED <<self, src, win>>

Next ==
    \/ read
    \/ read_retry
    \/ convert
    \/ save_whole
    \/ save_by_parts
    \/ save_by_date
    \/ save_group
    \/ convert_again

Spec == Init /\ [][Next]_vars

\* convert() runs its statements one after the other in one thread: a step
\* that can be taken is taken
FairSpec == Spec /\ WF_vars(Next)

(* ------------------------------------------------------------------ *)
(* MainWindow: the handlers of main.py                                  *)
(* ------------------------------------------------------------------ *)
\* largest value the months spinbox is turned to (its range is 1..120)
MaxSpinMonths == 2
DialogFiles == {FileA, FileB, FileC}
DropFiles == {FileA, FileB, FileC, FileD}
\* the values the parts spinbox is turned to (its range is 1..100)
SpinParts == {1, 4, MaxParts}

\* a variant of update_convert_button_state that looks at the input file only
update_convert_button_state_input_only(w) ==
    [w EXCEPT !.convert_button = (w.input_file # <<>>)]
\* lines 425-429
update_convert_button_state(w) ==
    [w EXCEPT !.convert_button = (w.input_file # <<>> /\ w.output_file # <<>>)]

\* lines 531-595: the date column combo is refilled from the columns of the
\* file, its signals blocked; _restore_ui_state (470-529) then sets every
\* widget to the value it was read from, signals blocked too
update_preview_table(w) ==
    IF w.input_file = <<>> THEN w
    ELSE IF PreviewFails(w.input_file) THEN w
    ELSE LET prev_dc == w.date_col_combo
             columns_sorted == sorted(FileColumns(w.input_file))
         IN [w EXCEPT !.date_col_items = columns_sorted,
                      !.date_col_combo = IF InSeq(prev_dc, columns_sorted) THEN prev_dc
                                         ELSE IF columns_sorted = <<>> THEN ""
                                         ELSE columns_sorted[1]]

\* the output settings the date handlers build, with and without month_n
DateSettings(w) ==
    OutSettings(PyStr("date"), PyStr(w.timeframe_combo), PyStr(w.date_col_combo),
                PyInt(w.months_spinbox), Absent)
DateSettingsNoMonths(w) ==
    OutSettings(PyStr("date"), PyStr(w.timeframe_combo), PyStr(w.date_col_combo), Absent, Absent)
LengthSettings(w) ==
    OutSettings(PyStr("length"), PyInt(w.parts_spinbox), Absent, Absent, Absent)

\* the Convert object before convert_file has made one
NoConvert == __init__(<<>>, <<>>, "", "", EmptyIn, EmptyOut)
GuiFrame ==
    <<src, pc, kwargs, loads, caught, dataframe, settings, to_split, split_by, date_col,
      month_n, parts, grouped, i, handed, written, raised, exc, branch, calls, hist>>
\* a handler other than convert_file has run and left the window as w
Handled(w) ==
    /\ win' = [w EXCEPT !.converted = FALSE]
    /\ self' = NoConvert
    /\ UNCHANGED GuiFrame

\* lines 340-375: the dialog returns a file name, or "" when cancelled
select_input_file ==
    \E file_name \in DialogFiles \cup {<<>>} :
        IF file_name # <<>>
        THEN LET w1 == [win EXCEPT !.input_file = file_name,
                                   !.input_type = InputTypeOf(file_name),
                                   !.output_file = <<>>,
                                   !.output_for = <<>>]
                 w2 == update_preview_table(update_convert_button_state(w1))
             IN Handled(update_convert_button_state(w2))
        ELSE Handled(update_convert_button_state([win EXCEPT !.input_file = <<>>]))

\* lines 376-404: needs an input file; the dialog returns a path or ""
select_output_file ==
    IF win.input_file = <<>> THEN Handled(win)
    ELSE \E output_file \in OutputFiles \cup {<<>>} :
            Handled(update_convert_button_state(
                [win EXCEPT !.output_file = output_file,
                            !.output_for = IF output_file = <<>> THEN <<>> ELSE win.input_file]))

\* lines 774-799: the first dropped url of a valid type becomes the input file
dropEvent ==
    \E file_path \in DropFiles :
        IF is_valid_file_type(file_path)
        THEN LET w1 == [win EXCEPT !.input_file = file_path,
                                   !.input_type = InputTypeOf(file_path),
                                   !.output_file = <<>>,
                                   !.output_for = <<>>]
                 w2 == update_preview_table(update_convert_button_state(w1))
             IN Handled(update_convert_button_state(w2))
        ELSE Handled(win)

\* lines 406-423: a click on the radio button that is not checked
handle_filetype_change ==
    LET w0 == [win EXCEPT !.radio_parquet = ~@]
        output_ext == IF w0.radio_parquet THEN <<".">> \o Chars("parquet")
                      ELSE <<".">> \o Chars("csv")
        w1 == IF w0.output_file # <<>>
              THEN [w0 EXCEPT !.output_file = splitext(w0.output_file) \o output_ext]
              ELSE w0
    IN IF w0.input_file = <<>> THEN Handled(w0)
       ELSE Handled([w1 EXCEPT !.output_type = IF w0.radio_parquet THEN "parquet" ELSE "csv"])

\* lines 444-452: a click on the other input radio button
handle_input_settings_change ==
    \E all_str \in BOOLEAN \ {win.radio_all_str} :
        LET w0 == [win EXCEPT !.radio_all_str = all_str]
            w1 == [w0 EXCEPT !.input_settings =
                      IF w0.radio_all_str /\ w0.input_type # "parquet"
                      THEN [EmptyIn EXCEPT !["dtype"] = PyStr("str")]
                      ELSE EmptyIn]
        IN Handled(update_preview_table(w1))

\* lines 654-685: a click on a split radio button that is not checked
handle_split_change ==
    \E mode \in {"no_split", "date", "length"} \ {win.split} :
        LET w0 == [win EXCEPT !.split = mode]
        IN Handled(
              CASE mode = "no_split" ->
                     [w0 EXCEPT !.output_settings = EmptyOut,
                                !.parts_enabled = FALSE,
                                !.date_enabled = FALSE,
                                !.months_visible = FALSE]
                [] mode = "date" ->
                     [w0 EXCEPT !.output_settings = DateSettings(w0),
                                !.parts_enabled = FALSE,
                                !.date_enabled = TRUE,
                                !.months_visible = (w0.timeframe_combo = "Last X Months")]
                [] mode = "length" ->
                     [w0 EXCEPT !.output_settings = LengthSettings(w0),
                                !.parts_enabled = TRUE,
                                !.date_enabled = FALSE,
                                !.months_visible = FALSE])

\* lines 687-695: the user picks another column in the enabled combo
handle_date_col_change ==
    /\ win.date_enabled
    /\ \E col \in SeqSet(win.date_col_items) \ {win.date_col_combo} :
          LET w0 == [win EXCEPT !.date_col_combo = col]
          IN Handled(IF w0.split = "date"
                     THEN [w0 EXCEPT !.output_settings = DateSettingsNoMonths(w0)]
                     ELSE w0)

\* lines 697-710: the user picks another timeframe in the enabled combo
handle_timeframe_change ==
    /\ win.date_enabled
    /\ \E tf \in SeqSet(date_splits) \ {win.timeframe_combo} :
          LET w0 == [win EXCEPT !.timeframe_combo = tf]
          IN Handled(IF w0.split = "date"
                     THEN [w0 EXCEPT !.output_settings = DateSettings(w0),
                                     !.months_visible = (tf = "Last X Months")]
                     ELSE w0)

\* lines 712-719: the user turns the enabled parts spinbox
handle_parts_change ==
    /\ win.parts_enabled
    /\ \E n \in SpinParts \ {win.parts_spinbox} :
          LET w0 == [win EXCEPT !.parts_spinbox = n]
          IN Handled(IF w0.split = "length"
                     THEN [w0 EXCEPT !.output_settings = LengthSettings(w0)]
                     ELSE w0)

\* lines 721-730: the user turns the months spinbox, shown for "Last X Months"
handle_months_change ==
    /\ win.months_visible
    /\ \E n \in (1..MaxSpinMonths) \ {win.months_spinbox} :
          LET w0 == [win EXCEPT !.months_spinbox = n]
          IN Handled(IF w0.split = "date"
                     THEN [w0 EXCEPT !.output_settings = DateSettings(w0)]
                     ELSE w0)

\* lines 732-760: a click on the enabled Confirm button; the Convert object
\* is built from the fields, and the button is enabled again at the end
convert_file ==
    /\ win.convert_button
    /\ self' = __init__(win.input_file, win.output_file, win.input_type, win.output_type,
                        win.input_settings, win.output_settings)
    /\ win' = [win EXCEPT !.convert_button = TRUE, !.converted = TRUE]
    /\ UNCHANGED GuiFrame

GuiInit ==
    /\ win = MainWindow
    /\ self = NoConvert
    /\ src = NoTable
    /\ pc = "start"
    /\ kwargs = EmptyIn
    /\ loads = <<>>
    /\ caught = NoExc
    /\ dataframe = NoTable
    /\ settings = EmptyOut
    /\ to_split = PyNone
    /\ split_by = PyNone
    /\ date_col = PyNone
    /\ month_n = PyNone
    /\ parts = 0
    /\ grouped = <<>>
    /\ i = 0
    /\ handed = <<>>
    /\ written = <<>>
    /\ raised = NoExc
    /\ exc = NoExc
    /\ branch = ""
    /\ calls = 0
    /\ hist = [output_settings |-> EmptyOut, branch |-> "", pc |-> ""]

GuiNext ==
    \/ select_input_file
    \/ select_output_file
    \/ dropEvent
    \/ handle_filetype_change
    \/ handle_input_settings_change
    \/ handle_split_change
    \/ handle_date_col_change
    \/ handle_timeframe_change
    \/ handle_parts_change
    \/ handle_months_change
    \/ convert_file

GuiSpec == GuiInit /\ [][GuiNext]_vars

(* ================================================================== *)
(* Properties                                                           *)
(* ================================================================== *)
Terminal == pc \in {"done", "error"}
Writable == self.output_type \in WritableTypes
Rows(df) == 0..(len(df) - 1)
\* the row ids lo .. hi-1 in order
Range(lo, hi) == [j \in 1..(hi - lo) |-> lo + j - 1]
\* the files written are the fragments handed to save(), in order
WrittenAsHanded ==
    /\ Len(written) = Len(handed)
    /\ \A j \in 1..Len(handed) :
          written[j].name = handed[j].name /\ written[j].rows = handed[j].rows
NamesDistinct ==
    \A j, l \in 1..Len(handed) : j # l => handed[j].name # handed[l].name

(* C1: a completed length split of a table of N rows into n >= 1 parts   *)
(* (n > N included) hands save() exactly n fragments; fragment j holds   *)
(* the rows floor((j-1)*N/n) .. floor(j*N/n)-1, so the ranges are        *)
(* contiguous, increasing and disjoint, every row is in exactly one      *)
(* fragment, and two sizes differ by at most 1; for csv and parquet      *)
(* output these n fragments are the files written.                       *)
C1_BalancedPartition ==
    (pc = "done" /\ branch = "length") =>
        LET N == len(dataframe)
            n == parts
        IN /\ n >= 1
           /\ Len(handed) = n
           /\ \A j \in 1..n :
                 handed[j].rows = Range(((j - 1) * N) \div n, (j * N) \div n)
           /\ \A r \in Rows(dataframe) :
                 Cardinality({j \in 1..n : r \in SeqSet(handed[j].rows)}) = 1
           /\ \A j \in 1..(n - 1) :
                 \A a \in SeqSet(handed[j].rows), b \in SeqSet(handed[j + 1].rows) : a < b
           /\ \A j, l \in 1..n :
                 Len(handed[j].rows) - Len(handed[l].rows) \in {0 - 1, 0, 1}
           /\ NamesDistinct
           /\ Writable => WrittenAsHanded

\* a length split into more parts than rows, of a table that has rows, is done
C1_Witness ==
    /\ pc = "done" /\ branch = "length"
    /\ parts > len(dataframe) /\ len(dataframe) >= 2
    /\ Len(written) = parts

\* the sizes of the files written
WrittenSizes == [j \in 1..Len(written) |-> Len(written[j].rows)]
TenRowsThreeParts ==
    pc = "done" /\ branch = "length" /\ len(dataframe) = 10 /\ parts = 3 /\ Writable

(* C2 as stated: 10 rows split into 3 parts are written as fragments of  *)
(* sizes [4, 3, 3]: rows 0-3, 4-6 and 7-9.                               *)
C2_Sizes433 ==
    TenRowsThreeParts =>
        /\ WrittenSizes = <<4, 3, 3>>
        /\ written[1].rows = Range(0, 4)
        /\ written[2].rows = Range(4, 7)
        /\ written[3].rows = Range(7, 10)

(* C2 amended: 10 rows split into 3 parts are written as fragments of    *)
(* sizes [3, 3, 4]: rows 0-2 to <base>_part_1.<ext>, rows 3-5 to         *)
(* <base>_part_2.<ext>, rows 6-9 to <base>_part_3.<ext>, in that order.  *)
C2_Sizes334 ==
    TenRowsThreeParts =>
        LET base == BaseName(self.output_file, self.output_type)
            ext == <<".">> \o Chars(self.output_type)
        IN /\ WrittenSizes = <<3, 3, 4>>
           /\ written[1].rows = <<0, 1, 2>>
           /\ written[2].rows = <<3, 4, 5>>
           /\ written[3].rows = <<6, 7, 8, 9>>
           /\ written[1].name = base \o <<"_", "p", "a", "r", "t", "_", "1">> \o ext
           /\ written[2].name = base \o <<"_", "p", "a", "r", "t", "_", "2">> \o ext
           /\ written[3].name = base \o <<"_", "p", "a", "r", "t", "_", "3">> \o ext

\* the 10-row table has been split into 3 files
C2_Witness == TenRowsThreeParts /\ Len(written) = 3

(* ------------------------------------------------------------------ *)
\* the calendar period of a timestamp under a timeframe: <<year>> or <<year, month>>
PeriodOf(cell, timeframe) == IF timeframe = "Yearly" THEN <<cell.y>> ELSE <<cell.y, cell.m>>
\* <base>_<year>.<ext>, or <base>_<year>_<MM>.<ext> with MM of two digits
PeriodFile(period, base, ext) ==
    base \o <<"_">> \o Str(period[1])
         \o (IF Len(period) = 1 THEN <<>>
             ELSE <<"_">> \o (IF period[2] < 10 THEN <<"0">> ELSE <<>>) \o Str(period[2]))
         \o <<".">> \o ext
GroupedDone ==
    pc = "done" /\ branch = "date" /\ split_by.s \in {"Yearly", "Monthly"}

(* C3: a completed Yearly (Monthly) split hands save() exactly one       *)
(* fragment per calendar year ((year, month) pair) present in the date   *)
(* column; the fragment of a period holds exactly the rows dated in it;  *)
(* every dated row is in exactly one fragment and no row is duplicated,  *)
(* so for a column without missing dates the fragments together are the  *)
(* original rows; the fragment of a period is named <base>_<year>.<ext>  *)
(* (<base>_<year>_<MM>.<ext>) when no date is missing; for csv and       *)
(* parquet output the fragments are the files written.                   *)
C3_OneFilePerPeriod ==
    GroupedDone =>
        LET col == date_col.s
            dated == Dated(dataframe, col)
            periods == {PeriodOf(CellOf(dataframe, col, r), split_by.s) : r \in dated}
            base == BaseName(self.output_file, self.output_type)
        IN /\ Len(handed) = Cardinality(periods)
           /\ \A p \in periods :
                 \E j \in 1..Len(handed) :
                    /\ SeqSet(handed[j].rows) =
                          {r \in dated : PeriodOf(CellOf(dataframe, col, r), split_by.s) = p}
                    /\ ~HasNaT(dataframe, col) =>
                          handed[j].name = PeriodFile(p, base, Chars(self.output_type))
           /\ \A j \in 1..Len(handed) :
                 Len(handed[j].rows) = Cardinality(SeqSet(handed[j].rows))
           /\ \A r \in Rows(dataframe) :
                 Cardinality({j \in 1..Len(handed) : r \in SeqSet(handed[j].rows)})
                    = IF r \in dated THEN 1 ELSE 0
           /\ ~HasNaT(dataframe, col) =>
                 UNION {SeqSet(handed[j].rows) : j \in 1..Len(handed)} = Rows(dataframe)
           /\ NamesDistinct
           /\ Writable => WrittenAsHanded

\* a Monthly split of a fully dated table has written two month files
C3_Witness ==
    /\ GroupedDone /\ split_by.s = "Monthly"
    /\ ~HasNaT(dataframe, date_col.s)
    /\ Len(written) = 2
    /\ written[1].rows = <<0>> /\ written[2].rows = <<1>>

LastMonths == branch = "date" /\ split_by.s = "Last X Months"
\* month_n as supplied, 1 when it is not
SuppliedMonths ==
    IF self.output_settings["month_n"] = Absent THEN 1 ELSE self.output_settings["month_n"].i
\* the rows dated strictly after the first day of the month that lies
\* SuppliedMonths months before the month of the latest date
RowsAfterCutoff ==
    LET col == date_col.s
        last == SeriesMax(dataframe, col)
        cutMonth == last.y * 12 + last.m - 1 - SuppliedMonths
    IN {r \in Dated(dataframe, col) :
           LET c == CellOf(dataframe, col, r)
           IN \/ c.y * 12 + c.m - 1 > cutMonth
              \/ c.y * 12 + c.m - 1 = cutMonth /\ c.d > 1}

(* C4: a completed "Last X Months" split hands save() exactly one        *)
(* fragment, named by the unmodified output path, holding in row order   *)
(* exactly the rows dated strictly after the cutoff (first day of the    *)
(* month of the latest date, minus month_n months, month_n being 1 when  *)
(* not supplied); rows dated at the cutoff or earlier, or not dated, are *)
(* left out; save() is called once whenever the column parses and holds  *)
(* a date; for csv and parquet output the fragment is the file written.  *)
C4_LastMonthsOneFile ==
    (Terminal /\ LastMonths) =>
        LET col == date_col.s
        IN /\ (~ParseFails(dataframe, col) /\ Dated(dataframe, col) # {}) <=> Len(handed) = 1
           /\ Len(handed) <= 1
           /\ Len(handed) = 1 =>
                 /\ handed[1].name = self.output_file
                 /\ SeqSet(handed[1].rows) = RowsAfterCutoff
                 /\ \A j \in 1..(Len(handed[1].rows) - 1) :
                       handed[1].rows[j] < handed[1].rows[j + 1]
           /\ pc = "done" => (Len(handed) = 1 /\ (Writable => WrittenAsHanded))

\* month_n not supplied, a row dated exactly at the cutoff: it is left out
C4_Witness ==
    /\ pc = "done" /\ LastMonths
    /\ self.output_settings["month_n"] = Absent
    /\ dataframe.date = <<Ts(2020, 1, 1), Ts(2020, 2, 10)>>
    /\ Len(written) = 1 /\ written[1].rows = <<1>>
    /\ written[1].name = self.output_file

\* the branch the decision rule names for the popped options
RuleBranch ==
    LET dateOk == /\ to_split = PyStr("date")
                  /\ split_by \in {PyStr("Last X Months"), PyStr("Monthly"), PyStr("Yearly")}
                  /\ date_col.k = "str" /\ date_col.s \in dataframe.columns
        lengthOk == to_split = PyStr("length") /\ int(split_by).ok /\ int(split_by).val > 0
    IN IF ~Truthy(to_split) THEN "whole"
       ELSE IF dateOk THEN "date"
       ELSE IF lengthOk THEN "length"
       ELSE "invalid"

(* C5: once convert() has chosen, the branch it took is the one the      *)
(* decision rule names: falsy to_split -> the whole table to the output  *)
(* path; "date" with a known timeframe and an existing column -> split   *)
(* by date; else "length" with a part count converting to an int > 0 ->  *)
(* split by length; anything else -> the invalid-configuration failure   *)
(* with nothing handed to save().                                        *)
C5_DecisionRule ==
    branch # "" =>
        /\ branch = RuleBranch
        /\ branch = "whole" =>
              /\ pc \in {"whole", "done", "error"}
              /\ Len(handed) <= 1
              /\ \A j \in 1..Len(handed) :
                    handed[j].name = self.output_file /\ handed[j].rows = RowIds(dataframe)
        /\ branch = "date" => pc \in {"by_date", "groups", "done", "error"}
        /\ branch = "length" =>
              pc \in {"by_parts", "done", "error"} /\ parts = int(split_by).val
        /\ branch = "invalid" => (pc = "error" /\ exc = GenericExc /\ handed = <<>>)

\* to_split "date" with a timeframe but a column the table lacks: invalid
C5_Witness ==
    /\ branch = "invalid"
    /\ to_split = PyStr("date") /\ split_by = PyStr("Yearly") /\ date_col = PyStr("nope")
    /\ pc = "error"

BadPartCount == ~int(split_by).ok \/ int(split_by).val <= 0

(* C6: with to_split "length" and a split_by that is zero, negative or   *)
(* not convertible to an int, convert() fails with the generic           *)
(* invalid-split failure, and nothing is handed to save() or written.    *)
C6_BadPartCountFails ==
    (branch # "" /\ to_split = PyStr("length") /\ BadPartCount) =>
        /\ pc = "error"
        /\ exc = GenericExc
        /\ handed = <<>>
        /\ written = <<>>

\* the read succeeded and split_by = 0 was rejected
C6_Witness ==
    /\ pc = "error" /\ to_split = PyStr("length") /\ split_by = PyInt(0)
    /\ len(dataframe) = 2 /\ exc = GenericExc

(* ------------------------------------------------------------------ *)
\* two exceptions a caller cannot tell apart: same type, same message
SameFailure(a, b) == a.type = b.type /\ a.msg = b.msg
ConfiguredEncoding == DictGet(self.input_settings, "encoding", PyStr("utf-8"))

(* C7: read() makes a second attempt, with ISO-8859-1, at most once and  *)
(* only for csv input under the default encoding utf-8; when the read    *)
(* fails after a first failed attempt, retried or not, the failure the   *)
(* caller receives is the failure of the first attempt.                  *)
C7_FirstFailurePropagates ==
    /\ Len(loads) <= 2
    /\ Len(loads) = 2 =>
          /\ self.input_type = "csv"
          /\ ConfiguredEncoding = PyStr("utf-8")
          /\ loads[2].kwargs["encoding"] = PyStr("ISO-8859-1")
    /\ (pc = "error" /\ caught # NoExc) => SameFailure(exc, caught)

(* C8: a read failure that is no decode failure (a missing path) reaches *)
(* the caller as it was raised and is not retried: the loader is called  *)
(* exactly once for that read.                                           *)
C8_IoFailureNotRetried ==
    (pc = "error" /\ caught.type = "FileNotFoundError") =>
        (Len(loads) = 1 /\ SameFailure(exc, caught))

WriteFailed == pc = "error" /\ raised.origin = "save"

(* C9 as stated: a write failure raised while convert() writes the whole *)
(* table or any fragment of a split reaches the caller as that failure.  *)
C9_WriteFailureVerbatim == WriteFailed => exc = raised

(* C9 amended: a write failure raised while convert() writes the whole   *)
(* table (to_split falsy) reaches the caller verbatim, as that same      *)
(* failure; one raised while writing a fragment of a date or length      *)
(* split reaches the caller as the generic invalid-split failure.        *)
C9_WriteFailureByBranch ==
    WriteFailed =>
        /\ raised.type \in WriteErrors
        /\ branch \in {"whole", "date", "length"}
        /\ branch = "whole" => (~Truthy(to_split) /\ exc = raised)
        /\ branch \in {"date", "length"} => (Truthy(to_split) /\ exc = GenericExc)

\* writing the whole table failed for lack of permission; the caller sees that
C9_Witness ==
    /\ WriteFailed /\ branch = "whole"
    /\ raised.type = "PermissionError" /\ exc.type = "PermissionError"

C11_UnsupportedTypeFails ==
    /\ (self.input_type \notin {"csv", "parquet"} /\ pc # "start") =>
          /\ pc = "error"
          /\ exc = UnsupportedExc(self.input_type)
          /\ loads = <<>>
    /\ (self.output_type \notin {"csv", "parquet"} /\ Terminal) =>
          /\ pc = "error"
          /\ written = <<>>

\* the name of the fragment a split writes in its iteration k (from 1), on a base
FragmentNameOn(base, k) ==
    IF branch = "length"
    THEN PartName(base, k - 1, self.output_type)
    ELSE PeriodName(base, grouped[k].key, split_by.s, HasNaT(dataframe, date_col.s),
                    self.output_type)
FragmentName(k) == FragmentNameOn(BaseName(self.output_file, self.output_type), k)
FragmentRows(k) ==
    IF branch = "length"
    THEN iloc(dataframe, PartStart(k - 1, len(dataframe), parts),
              PartEnd(k - 1, len(dataframe), parts))
    ELSE grouped[k].rows
SplitWriteFailed == WriteFailed /\ branch \in {"date", "length"}

(* C12: when a date or length split fails while writing fragment k,     *)
(* convert() ends in error for that call, the fragments 1..k-1 written   *)
(* before are still the files on disk, each with its name and rows (no   *)
(* rollback), and fragment k and the fragments after it are not written: *)
(* no write step of the call remains.                                    *)
C12_FragmentsBeforeFailureKept ==
    SplitWriteFailed =>
        /\ pc = "error" /\ exc # NoExc
        /\ Len(handed) = i + 1
        /\ Len(written) = i
        /\ \A k \in 1..i :
              /\ written[k].name = FragmentName(k)
              /\ written[k].rows = FragmentRows(k)
              /\ written[k].name = handed[k].name
        /\ \A k \in 1..i : written[k].name # handed[i + 1].name
        /\ ~ENABLED (save_whole \/ save_by_parts \/ save_by_date \/ save_group)

\* the third fragment of a length split failed, two files were written
C12_Witness ==
    /\ SplitWriteFailed /\ branch = "length"
    /\ i = 2 /\ Len(written) = 2 /\ parts >= 3
    /\ written[1].rows # <<>>

\* the last loader call of this convert() returned a table
ReadSucceeded ==
    /\ loads # <<>>
    /\ Load(self.input_type, self.input_file, loads[Len(loads)].kwargs, "").ok
    /\ dataframe = src
WritePhases == {"whole", "by_date", "groups", "by_parts"}
\* the steps of one call: START -> READ -> one write branch -> DONE, ERROR
\* from any step that can fail; a new call starts from DONE or ERROR only
CallOrder ==
    {<<"start", "retry">>, <<"start", "loaded">>, <<"start", "error">>,
     <<"retry", "loaded">>, <<"retry", "error">>,
     <<"loaded", "whole">>, <<"loaded", "by_date">>, <<"loaded", "by_parts">>,
     <<"loaded", "error">>,
     <<"whole", "done">>, <<"whole", "error">>,
     <<"by_date", "groups">>, <<"by_date", "done">>, <<"by_date", "error">>,
     <<"groups", "groups">>, <<"groups", "done">>, <<"groups", "error">>,
     <<"by_parts", "by_parts">>, <<"by_parts", "done">>, <<"by_parts", "error">>,
     <<"done", "start">>, <<"error", "start">>}
BranchOfPhase(p) ==
    CASE p = "whole" -> "whole"
      [] p \in {"by_date", "groups"} -> "date"
      [] p = "by_parts" -> "length"
      [] OTHER -> ""
OneBranchInOrder ==
    /\ (handed # <<>> \/ written # <<>> \/ pc \in WritePhases) => ReadSucceeded
    /\ ~ReadSucceeded => (handed = <<>> /\ written = <<>> /\ branch = "" /\ pc # "done")
    /\ pc \in WritePhases => branch = BranchOfPhase(pc)
    /\ handed # <<>> => branch \in {"whole", "date", "length"}
    /\ pc = "done" => branch \in {"whole", "date", "length"}
    /\ pc = "error" => exc # NoExc
StepInOrder ==
    /\ <<pc, pc'>> \in CallOrder
    /\ (branch # "" /\ pc' # "start") => branch' = branch
    /\ handed' # handed =>
          \/ pc \in WritePhases /\ Len(handed') = Len(handed) + 1
          \/ pc' = "start" /\ handed' = <<>>

(* C13: every call of convert() goes START -> READ -> exactly one of the *)
(* three write branches (whole, by date, by length) -> DONE, or ends in  *)
(* ERROR at the first step that fails: nothing is written before the     *)
(* read has returned a table, nothing is written after a failed read, at *)
(* most one write branch is entered in a call, and every call begun ends *)
(* in DONE or ERROR.                                                     *)
C13_CallOrder ==
    /\ []OneBranchInOrder
    /\ [][StepInOrder]_vars
    /\ (pc = "start") ~> Terminal

\* a read that succeeded at its second attempt, then the whole table written
C13_Witness ==
    /\ pc = "done" /\ branch = "whole"
    /\ Len(loads) = 2 /\ Len(written) = 1

(* C14: every call of convert() that completes successfully has made    *)
(* exactly one successful read and one or more writes: success is never  *)
(* reported for a call that wrote no output file, for any table (an      *)
(* empty one included), any split policy and any output type.            *)
C14_SuccessWroteAFile ==
    pc = "done" =>
        /\ ReadSucceeded
        /\ Len(written) >= 1

SplitKeys == {"to_split", "split_by", "date_col", "month_n"}
\* the options the writer of save() call j receives
WriterOptions(j) == SaveSettings(handed[j].settings)

(* C15: convert() removes to_split, split_by, date_col and month_n from  *)
(* a copy of the write options before any writer is called: on the three *)
(* write paths the options save() and the writer receive hold none of    *)
(* the four keys; the object's own output_settings is after convert(),   *)
(* successful or failed, what it was before; and a second convert() on   *)
(* the same object takes the branch the first took.                      *)
C15_SplitKeysStrippedFromCopy ==
    /\ \A j \in 1..Len(handed) :
          /\ DictKeys(handed[j].settings) \cap SplitKeys = {}
          /\ DictKeys(WriterOptions(j)) \cap SplitKeys = {}
    /\ branch # "" => DictKeys(settings) \cap SplitKeys = {}
    /\ self.output_settings = hist.output_settings
    /\ (calls >= 2 /\ (branch # "" \/ Terminal)) => branch = hist.branch

\* the second call on an object splits by date as the first did
C15_Witness ==
    /\ calls = 2 /\ pc = "done"
    /\ branch = "date" /\ hist.branch = "date" /\ hist.pc = "done"
    /\ Len(handed) >= 1
    /\ DictKeys(self.output_settings) \cap SplitKeys = {"to_split", "split_by", "date_col", "month_n"}

\* the splits that name their fragments: by length, Yearly and Monthly
NamingSplit ==
    \/ branch = "length"
    \/ branch = "date" /\ split_by.s \in {"Yearly", "Monthly"}
Suffix == <<".">> \o Chars(self.output_type)
HasSuffix == EndsWith(self.output_file, Suffix)
HoldsType == Contains(self.output_file, Chars(self.output_type))
WithoutSuffix == SubSeq(self.output_file, 1, Len(self.output_file) - Len(Suffix))
\* the positions where the text of the output type begins in the path
TypeAt ==
    {p \in 1..Len(self.output_file) :
        /\ p + Len(Chars(self.output_type)) - 1 <= Len(self.output_file)
        /\ SubSeq(self.output_file, p, p + Len(Chars(self.output_type)) - 1)
              = Chars(self.output_type)}
LastTypeAt == CHOOSE p \in TypeAt : \A q \in TypeAt : q <= p
\* the path cut at the last occurrence of the type's text: before it, or after it
CutAtLastType ==
    {SubSeq(self.output_file, 1, LastTypeAt - 1),
     SubSeq(self.output_file, 1, LastTypeAt + Len(Chars(self.output_type)) - 1)}
\* the path up to its last ".", the dot left out; all of it when it has no dot
CutAtLastDot ==
    LET path == self.output_file
    IN IF \A p \in 1..Len(path) : path[p] # "." THEN path
       ELSE LET n == CHOOSE p \in 1..Len(path) :
                        path[p] = "." /\ \A q \in (p + 1)..Len(path) : path[q] # "."
            IN SubSeq(path, 1, n - 1)
AllNamedOn(base) == \A k \in 1..Len(handed) : handed[k].name = FragmentNameOn(base, k)

(* C16 as stated: in the Yearly, Monthly and length splits the base of   *)
(* every fragment name is the output path without its trailing           *)
(* ".<output type>" when the path ends with it; a path that does not end *)
(* with it but holds the type's text is cut at the last occurrence of    *)
(* that text; a path without the type's text is the base unchanged.      *)
C16_BaseCutAtTypeText ==
    (NamingSplit /\ handed # <<>>) =>
        IF HasSuffix THEN AllNamedOn(WithoutSuffix)
        ELSE IF HoldsType THEN \E base \in CutAtLastType : AllNamedOn(base)
        ELSE AllNamedOn(self.output_file)

(* C16 amended: in the Yearly, Monthly and length splits the base of     *)
(* every fragment name is the output path without its trailing           *)
(* ".<output type>" when the path ends with it; a path that does not end *)
(* with it but holds the type's text anywhere is cut at its last ".",    *)
(* losing what follows that dot, and is unchanged when it has no dot; a  *)
(* path without the type's text is the base unchanged.                   *)
C16_BaseCutAtLastDot ==
    (NamingSplit /\ handed # <<>>) =>
        IF HasSuffix THEN AllNamedOn(WithoutSuffix)
        ELSE IF HoldsType THEN AllNamedOn(CutAtLastDot)
        ELSE AllNamedOn(self.output_file)

\* the path csv/o.t with csv output: the two parts are named on csv/o
C16_Witness ==
    /\ pc = "done" /\ branch = "length" /\ Len(handed) = 2
    /\ self.output_type = "csv"
    /\ self.output_file = <<"c", "s", "v", "/", "o", ".", "t">>
    /\ ~HasSuffix /\ HoldsType
    /\ handed[1].name = <<"c", "s", "v", "/", "o", "_", "p", "a", "r", "t", "_", "1", ".", "c", "s", "v">>

\* the format the output radio buttons show
RadioType == IF win.radio_parquet THEN "parquet" ELSE "csv"

(* C17: after any sequence of window events (clicks on the Parquet/CSV   *)
(* radio buttons, an input file selected or dropped, an output file      *)
(* selected), the output type of the Convert object made when Confirm is *)
(* pressed is the format the radio buttons show, whether the format was  *)
(* chosen before or after the input file.                                *)
C17_OutputTypeIsRadio == win.converted => self.output_type = RadioType

\* month_n as convert() takes it from the object's output_settings (line 146)
MonthsUsed == DictGet(self.output_settings, "month_n", PyInt(1))

(* C18: whenever the split by date with timeframe "Last X Months" is     *)
(* selected, the month count a conversion uses is the value the months   *)
(* spinbox shows, after any sequence of changes to the split radio       *)
(* buttons, the date column combo, the timeframe combo and the spinbox.  *)
C18_MonthsUsedIsSpinbox ==
    (win.converted /\ win.split = "date" /\ win.timeframe_combo = "Last X Months") =>
        MonthsUsed = PyInt(win.months_spinbox)

(* C19: whenever the split by date is selected, output_settings          *)
(* ["date_col"] is the column the date column combo shows, after any     *)
(* sequence of window events, the loading (selecting or dropping) of a   *)
(* new input file included, which refills the combo from its columns.    *)
C19_DateColIsCombo ==
    win.split = "date" => win.output_settings["date_col"] = PyStr(win.date_col_combo)

\* Confirm is enabled exactly when both paths are set, and then the output
\* path is one chosen while the present input file was the input file
ConfirmWhenBothSet ==
    /\ win.convert_button = (win.input_file # <<>> /\ win.output_file # <<>>)
    /\ win.convert_button => win.output_for = win.input_file
    /\ win.output_file = <<>> => win.output_for = <<>>
\* a handler that makes another file the input file leaves no output path
NewInputClearsOutput ==
    (win'.input_file # win.input_file /\ win'.input_file # <<>>) =>
        (win'.output_file = <<>> /\ ~win'.convert_button)

GroupedSplit ==
    /\ branch = "date" /\ split_by.s \in {"Yearly", "Monthly"}
    /\ ~ParseFails(dataframe, date_col.s)
\* the rows of the table whose date is missing
Missing == {r \in 0..(len(dataframe) - 1) : CellOf(dataframe, date_col.s, r).k = "nat"}
RowsHanded == UNION {SeqSet(handed[j].rows) : j \in 1..Len(handed)}
RowsWritten == UNION {SeqSet(written[j].rows) : j \in 1..Len(written)}

(* C21: in a Yearly or Monthly split a row whose date is missing (null,  *)
(* not-a-time) is in no period group and so is written to no file, while *)
(* the dated rows are written and convert() completes without an error   *)
(* of its own (only a failing writer ends it in error); when every row   *)
(* has a missing date, or the table is empty, no group is made, no file  *)
(* is written at all and convert() completes.                            *)
C21_MissingDatesInNoFile ==
    GroupedSplit =>
        /\ RowsHanded \cap Missing = {}
        /\ RowsWritten \cap Missing = {}
        /\ \A g \in 1..Len(grouped) : SeqSet(grouped[g].rows) \cap Missing = {}
        /\ pc = "error" => raised.origin = "save"
        /\ pc = "done" => RowsHanded = Dated(dataframe, date_col.s)
        /\ (pc = "done" /\ Writable) => RowsWritten = Dated(dataframe, date_col.s)
        /\ Dated(dataframe, date_col.s) = {} =>
              /\ pc \in {"by_date", "done"}
              /\ grouped = <<>> /\ handed = <<>> /\ written = <<>>

\* of two rows the first has no date: one file, holding the second row only
C21_Witness ==
    /\ GroupedSplit /\ pc = "done" /\ Writable
    /\ len(dataframe) = 2 /\ Missing = {0}
    /\ Len(written) = 1 /\ written[1].rows = <<1>>

====
